---- MODULE Spec2Model ----
(***************************************************************************)
(* Model of scripts/setup.py: the configure / build / run front-end of a   *)
(* CMake project.  main() is a sequential program; its steps are the       *)
(* actions below, and the external processes it starts (cmake configure,   *)
(* cmake --build, the target executable) are steps whose exit code and     *)
(* filesystem effect are chosen nondeterministically.                      *)
(*                                                                         *)
(* Paths are sequences of components (<<>> is the filesystem root), the    *)
(* filesystem is the set of paths that exist, a dict is a function from    *)
(* variable names to strings, and dict objects live in a heap so that      *)
(* copying and in-place mutation are different things.                     *)
(***************************************************************************)
EXTENDS Integers, Sequences, FiniteSets, TLC

VARIABLES
    pc,                 \* position in main()
    args,               \* argparse namespace: action, config, source_dir, cuda_path, ...
    isWindows,          \* platform.system() == "Windows"
    script_dir,         \* Path(__file__).resolve().parent
    fs,                 \* the paths that exist on disk
    cmakeOnPath,        \* whether shutil.which("cmake") finds the tool
    heap,               \* dict objects; heap[r] is the content of the dict with reference r
    baseRef,            \* the `base` argument handed to prepare_utf8_color_env (None in main)
    envRef,             \* the local `env` of main (a reference into heap)
    extra_cmake_args,   \* the local `extra_cmake_args` of main
    source_dir,         \* the local `source_dir` of main
    build_dir,          \* the local `build_dir` of main
    exe,                \* the local `exe` of main
    candidateList,      \* the list the last call of exe_candidates returned
    calls,              \* the external processes started so far, in order
    out,                \* the lines printed so far (their tags)
    exitCode            \* the exit status of the script; Running until it ends

vars == <<pc, args, isWindows, script_dir, fs, cmakeOnPath, heap, baseRef, envRef,
          extra_cmake_args, source_dir, build_dir, exe, candidateList, calls, out, exitCode>>

-----------------------------------------------------------------------------
(* Bounds of the model *)

\* exit codes an external process may end with: 0 .. MaxExitCode
MaxExitCode == 2
\* depth of the deepest starting directory of the upward search
MaxDepth == 3
\* number of entries of a caller-supplied base environment
MaxBaseEntries == 2

-----------------------------------------------------------------------------
(* Program constants *)

DEFAULT_BUILD_DIR == "build"
DEFAULT_TARGET == "cudaLaunchBench"
CUDA_DEFAULT_PATH_WIN == <<"C:", "Program Files", "NVIDIA GPU Computing Toolkit", "CUDA", "v12.3">>
DEFAULT_CUDA_ARCH == "75"
\* the code run_cmd and run_executable return, and main exits with, when a tool is not found
NotFoundCode == 127
\* the choices of --config
ConfigChoices == {"Debug", "Release", "RelWithDebInfo", "MinSizeRel"}
Actions == {"configure", "build", "run", "all"}

\* Python's None for a reference, and for the exit status of a script still running
None == 0
Running == -1
\* the reference of the os.environ mapping
Environ == 1

-----------------------------------------------------------------------------
(* Paths *)

\* p / name
Join(p, name) == Append(p, name)

\* Path.parent: the root is its own parent
Parent(p) == IF Len(p) = 0 THEN p ELSE SubSeq(p, 1, Len(p) - 1)

\* [start] + list(start.parents): start, then every ancestor up to the root
RECURSIVE Ancestors(_)
Ancestors(p) == IF Len(p) = 0 THEN <<p>> ELSE <<p>> \o Ancestors(Parent(p))

\* Path.exists()
Exists(files, p) == p \in files

\* os.sep and os.pathsep of the platform
Sep(win) == IF win THEN "\\" ELSE "/"
PathSep(win) == IF win THEN ";" ELSE ":"

\* str(path)
RECURSIVE StrFrom(_, _, _)
StrFrom(p, i, win) ==
    IF i > Len(p) THEN ""
    ELSE (IF i = 1 /\ win THEN "" ELSE Sep(win)) \o p[i] \o StrFrom(p, i + 1, win)
Str(p, win) == IF Len(p) = 0 THEN Sep(win) ELSE StrFrom(p, 1, win)

-----------------------------------------------------------------------------
(* Root discovery *)

\* the for loop of find_project_root: index of the first directory of ps, from i on,
\* that holds CMakeLists.txt; 0 when the loop ends without returning
RECURSIVE FirstWithMarker(_, _, _)
FirstWithMarker(ps, i, files) ==
    IF i > Len(ps) THEN 0
    ELSE IF Exists(files, Join(ps[i], "CMakeLists.txt")) THEN i
    ELSE FirstWithMarker(ps, i + 1, files)

\* find_project_root iterating over start.parents only
find_project_root_parentsOnly(start, files) ==
    LET ps == Ancestors(Parent(start))
        i == FirstWithMarker(ps, 1, files)
    IN  IF i # 0 THEN [path |-> ps[i], warn |-> FALSE]
        ELSE [path |-> Parent(start), warn |-> TRUE]

\* find_project_root(start): the directory returned and whether the warning is printed
find_project_root(start, files) ==
    LET ps == Ancestors(start)
        i == FirstWithMarker(ps, 1, files)
    IN  IF i # 0 THEN [path |-> ps[i], warn |-> FALSE]
        ELSE [path |-> Parent(start), warn |-> TRUE]

-----------------------------------------------------------------------------
(* Environment composition *)

EnvKeys == {"PYTHONIOENCODING", "PYTHONUTF8", "LC_ALL", "CLICOLOR", "CLICOLOR_FORCE",
            "FORCE_COLOR", "TERM", "PATH", "CUDA_PATH", "CUDACXX", "HOME"}

\* d.setdefault(k, v)
SetDefault(d, k, v) == IF k \in DOMAIN d THEN d ELSE d @@ (k :> v)

\* d[k] = v
SetItem(d, k, v) == [x \in DOMAIN d \cup {k} |-> IF x = k THEN v ELSE d[x]]

\* d.get(k, default)
Get(d, k, default) == IF k \in DOMAIN d THEN d[k] ELSE default

\* truth value of an Optional[dict]: None and the empty dict are falsy
Truthy(h, r) == r # None /\ DOMAIN h[r] # {}

\* dict(x): a new dict object holding the entries of x
dict(h, r) == [heap |-> Append(h, h[r]), ref |-> Len(h) + 1]

\* the defaults with CLICOLOR_FORCE and FORCE_COLOR assigned instead of defaulted
Utf8ColorDefaults_forced(d, win) ==
    LET e1 == SetDefault(d, "PYTHONIOENCODING", "utf-8")
        e2 == SetDefault(e1, "PYTHONUTF8", "1")
        e3 == SetDefault(e2, "LC_ALL", IF ~win THEN "C.UTF-8" ELSE "")
        e4 == SetDefault(e3, "CLICOLOR", "1")
        e5 == SetItem(e4, "CLICOLOR_FORCE", "1")
        e6 == SetItem(e5, "FORCE_COLOR", "3")
        t  == Get(e6, "TERM", "xterm-256color")
    IN  SetDefault(e6, "TERM", IF t # "" THEN t ELSE "xterm-256color")

\* the setdefault calls of prepare_utf8_color_env, applied to one dict
Utf8ColorDefaults(d, win) ==
    LET e1 == SetDefault(d, "PYTHONIOENCODING", "utf-8")
        e2 == SetDefault(e1, "PYTHONUTF8", "1")
        e3 == SetDefault(e2, "LC_ALL", IF ~win THEN "C.UTF-8" ELSE "")
        e4 == SetDefault(e3, "CLICOLOR", "1")
        e5 == SetDefault(e4, "CLICOLOR_FORCE", "1")
        e6 == SetDefault(e5, "FORCE_COLOR", "3")
        t  == Get(e6, "TERM", "xterm-256color")
    IN  SetDefault(e6, "TERM", IF t # "" THEN t ELSE "xterm-256color")

\* prepare_utf8_color_env(base): the heap after the call and the reference returned
prepare_utf8_color_env(h, base, win) ==
    LET c == dict(h, IF Truthy(h, base) THEN base ELSE Environ)
    IN  [heap |-> [c.heap EXCEPT ![c.ref] = Utf8ColorDefaults(@, win)], ref |-> c.ref]

\* if not cuda_path.exists()
CudaPathMissing(files, cuda_path) == ~Exists(files, cuda_path)

\* the compiler binary never looked for
NvccMissing_unchecked(files, nvcc) == FALSE

\* if not nvcc.exists()
NvccMissing(files, nvcc) == ~Exists(files, nvcc)

\* prepare_cuda_on_windows(cuda_path_opt, env): the heap after the call, the reference
\* returned (env itself), the extra CMake arguments and the lines printed.
\* An empty cuda_path_opt stands for None or "".
prepare_cuda_on_windows(h, cuda_path_opt, env, files, win) ==
    LET cuda_path == IF Len(cuda_path_opt) # 0 THEN cuda_path_opt ELSE CUDA_DEFAULT_PATH_WIN
        nvcc == Join(Join(cuda_path, "bin"), "nvcc.exe")
        d == h[env]
        d1 == SetItem(d, "CUDA_PATH", Str(cuda_path, win))
        d2 == SetItem(d1, "CUDACXX", Str(nvcc, win))
        d3 == SetItem(d2, "PATH",
                      Str(Join(cuda_path, "bin"), win) \o PathSep(win) \o Get(d2, "PATH", ""))
    IN  IF CudaPathMissing(files, cuda_path)
        THEN [heap |-> h, ref |-> env, extra |-> <<>>, out |-> <<"warn:cuda_path">>]
        ELSE IF NvccMissing(files, nvcc)
        THEN [heap |-> h, ref |-> env, extra |-> <<>>, out |-> <<"warn:nvcc">>]
        ELSE [heap |-> [h EXCEPT ![env] = d3], ref |-> env,
              extra |-> <<"-DCMAKE_GENERATOR_TOOLSET=cuda=" \o Str(cuda_path, win),
                          "-DCMAKE_CUDA_COMPILER=" \o Str(nvcc, win)>>,
              out |-> <<"info:cuda">>]

-----------------------------------------------------------------------------
(* Executable resolution *)

\* the loop appending every candidate
Unique_keepAll(candidates, i, unique) == unique \o SubSeq(candidates, i, Len(candidates))

\* the de-duplication loop of exe_candidates: unique, extended by the elements of
\* candidates from i on that it does not hold yet
RECURSIVE Unique(_, _, _)
Unique(candidates, i, unique) ==
    IF i > Len(candidates) THEN unique
    ELSE Unique(candidates, i + 1,
                IF \E j \in 1..Len(unique) : unique[j] = candidates[i]
                THEN unique ELSE Append(unique, candidates[i]))

\* the executable's file name
ExeName(target, win) == IF win THEN target \o ".exe" ELSE target

\* the candidate list of exe_candidates before de-duplication
RawCandidates(bdir, target, config, win) ==
    LET exe_name == ExeName(target, win)
    IN  << Join(bdir, exe_name),
           Join(Join(bdir, "bin"), exe_name),
           Join(Join(bdir, config), exe_name),
           Join(Join(Join(bdir, "src"), config), exe_name),
           Join(Join(Join(bdir, "apps"), config), exe_name),
           Join(Join(bdir, "Release"), exe_name),
           Join(Join(bdir, "Debug"), exe_name) >>

\* exe_candidates(build_dir, target, config)
exe_candidates(bdir, target, config, win) ==
    Unique(RawCandidates(bdir, target, config, win), 1, <<>>)

\* the loop returning the last candidate that exists instead of the first
FirstExisting_last(cs, i, files) ==
    LET S == {j \in i..Len(cs) : Exists(files, cs[j])}
    IN  IF S = {} THEN 0 ELSE CHOOSE j \in S : \A k \in S : k <= j

\* the for loop of find_executable: index of the first candidate that exists, else 0
RECURSIVE FirstExisting(_, _, _)
FirstExisting(cs, i, files) ==
    IF i > Len(cs) THEN 0
    ELSE IF Exists(files, cs[i]) THEN i
    ELSE FirstExisting(cs, i + 1, files)

\* find_executable(build_dir, target, config)
find_executable(bdir, target, config, files, win) ==
    LET cs == exe_candidates(bdir, target, config, win)
        i == FirstExisting(cs, 1, files)
    IN  IF i # 0 THEN cs[i] ELSE cs[1]

-----------------------------------------------------------------------------
(* External processes *)

\* what differs between two runs of the same command: the value run_cmd returns, the
\* lines it prints, and whether the tool got to run at all
run_cmd ==
    {[code |-> c, ran |-> TRUE, out |-> <<"cmd">>] : c \in 0..MaxExitCode}
    \cup {[code |-> NotFoundCode, ran |-> FALSE, out |-> <<"cmd", "error:command_not_found">>]}

\* subprocess.Popen(cmd).wait() in run_executable: a missing file raises
\* FileNotFoundError; a file that exists runs and exits with some code, or cannot be
\* executed and raises another OSError (PermissionError), which nothing catches
Popen(files, path) ==
    IF ~Exists(files, path) THEN {[raised |-> "FileNotFoundError", code |-> 0]}
    ELSE {[raised |-> "", code |-> c] : c \in 0..MaxExitCode}
         \cup {[raised |-> "PermissionError", code |-> 0]}

\* the command line of cmake_configure
ConfigureCmd ==
    <<"cmake", "-S", Str(source_dir, isWindows), "-B", Str(build_dir, isWindows)>>
    \o (IF args.config # "" THEN <<"-DCMAKE_BUILD_TYPE=" \o args.config>> ELSE <<>>)
    \o (IF args.cuda_arch # "" THEN <<"-DCMAKE_CUDA_ARCHITECTURES=" \o args.cuda_arch>> ELSE <<>>)
    \o <<"-DCMAKE_COLOR_DIAGNOSTICS=ON">>
    \o extra_cmake_args

\* the command line of cmake_build, for --parallel not given
BuildCmd ==
    <<"cmake", "--build", Str(build_dir, isWindows)>>
    \o (IF args.config # "" THEN <<"--config", args.config>> ELSE <<>>)
    \o (IF isWindows
        THEN <<"--", "/consoleloggerparameters:ForceConsoleColor;WarningColor=Cyan;ErrorColor=Yellow">>
        ELSE <<>>)

CacheMarker(bdir) == Join(bdir, "CMakeCache.txt")

\* one external process: the step, its command line, the environment handed to it,
\* whether it ran to an exit code, the exception that left the invoking function (""
\* when it returned) and the value it returned
Call(step, cmd, ran, raised, code) ==
    [step |-> step, cmd |-> cmd, env |-> heap[envRef], ran |-> ran, raised |-> raised,
     code |-> code]

-----------------------------------------------------------------------------
(* The steps of main *)

\* source_dir and build_dir
LocateProject ==
    /\ pc = "start"
    /\ LET given == Len(args.source_dir) # 0
           r == find_project_root(script_dir, fs)
           src == IF given THEN args.source_dir[1] ELSE r.path
       IN  /\ source_dir' = src
           /\ build_dir' = IF args.build_dir.absolute THEN args.build_dir.parts
                           ELSE src \o args.build_dir.parts
           /\ out' = IF ~given /\ r.warn THEN Append(out, "warn:root") ELSE out
    /\ pc' = "which"
    /\ UNCHANGED <<args, isWindows, script_dir, fs, cmakeOnPath, heap, baseRef, envRef,
                   extra_cmake_args, exe, candidateList, calls, exitCode>>

\* every tool reported as found
which_tool_anything(name) == TRUE

\* which_tool(name): whether shutil.which finds the tool
which_tool(name) == name = "cmake" /\ cmakeOnPath

\* if not which_tool("cmake"): sys.exit(127)
CheckCmake ==
    /\ pc = "which"
    /\ IF ~which_tool("cmake")
       THEN /\ out' = Append(out, "error:cmake_not_found")
            /\ exitCode' = NotFoundCode
            /\ pc' = "exited"
       ELSE /\ pc' = "env"
            /\ UNCHANGED <<out, exitCode>>
    /\ UNCHANGED <<args, isWindows, script_dir, fs, cmakeOnPath, heap, baseRef, envRef,
                   extra_cmake_args, source_dir, build_dir, exe, candidateList, calls>>

\* env = prepare_utf8_color_env(...) and the --export-compile-commands argument
ComposeEnv ==
    /\ pc = "env"
    /\ LET r == prepare_utf8_color_env(heap, baseRef, isWindows)
       IN  /\ heap' = r.heap
           /\ envRef' = r.ref
    /\ extra_cmake_args' = IF args.export_compile_commands
                           THEN <<"-DCMAKE_EXPORT_COMPILE_COMMANDS=ON">> ELSE <<>>
    /\ pc' = "cuda"
    /\ UNCHANGED <<args, isWindows, script_dir, fs, cmakeOnPath, baseRef, source_dir,
                   build_dir, exe, candidateList, calls, out, exitCode>>

\* the CUDA wiring, on Windows only, and the --cmake arguments
WireCuda ==
    /\ pc = "cuda"
    /\ IF isWindows
       THEN LET r == prepare_cuda_on_windows(heap, args.cuda_path, envRef, fs, isWindows)
            IN  /\ heap' = r.heap
                /\ envRef' = r.ref
                /\ extra_cmake_args' = extra_cmake_args \o r.extra \o args.cmake
                /\ out' = out \o r.out
       ELSE /\ extra_cmake_args' = extra_cmake_args \o args.cmake
            /\ UNCHANGED <<heap, envRef, out>>
    /\ pc' = "dispatch"
    /\ UNCHANGED <<args, isWindows, script_dir, fs, cmakeOnPath, baseRef, source_dir,
                   build_dir, exe, candidateList, calls, exitCode>>

\* the exit code of the tool ignored
ExitsOn_never(code) == FALSE

\* if code != 0: sys.exit(code), at the end of cmake_configure and of cmake_build
ExitsOn(code) == code # 0

\* build configuring whether or not the build directory holds CMakeCache.txt
ConfigureIsDue_ignoresCache ==
    /\ pc = "dispatch"
    /\ args.action \in {"configure", "all", "build"}

\* whether main calls cmake_configure next: always for configure and all, and for
\* build when the build directory holds no CMakeCache.txt
ConfigureIsDue ==
    /\ pc = "dispatch"
    /\ IF args.action = "build" THEN ~Exists(fs, CacheMarker(build_dir))
       ELSE args.action \in {"configure", "all"}

\* cmake_configure, and the return or the exit that follows it
Configure ==
    /\ ConfigureIsDue
    /\ \E r \in run_cmd, cache \in BOOLEAN :
        /\ r.code = 0 => cache
        /\ ~r.ran => ~cache
        /\ fs' = fs \cup {build_dir} \cup (IF cache THEN {CacheMarker(build_dir)} ELSE {})
        /\ calls' = Append(calls, Call("configure", ConfigureCmd, r.ran, "", r.code))
        /\ out' = out \o (IF args.action = "build" THEN <<"info:configure_first">> ELSE <<>>)
                      \o r.out
        /\ IF ExitsOn(r.code)
           THEN exitCode' = r.code /\ pc' = "exited"
           ELSE IF args.action = "configure"
           THEN exitCode' = 0 /\ pc' = "exited"
           ELSE exitCode' = exitCode /\ pc' = "build"
    /\ UNCHANGED <<args, isWindows, script_dir, cmakeOnPath, heap, baseRef, envRef,
                   extra_cmake_args, source_dir, build_dir, exe, candidateList>>

\* whether main calls cmake_build next
BuildIsDue ==
    IF pc = "dispatch"
    THEN args.action = "build" /\ Exists(fs, CacheMarker(build_dir))
    ELSE pc = "build"

\* cmake_build, and the return or the exit that follows it; a successful build may
\* leave the executable at one of the places exe_candidates looks at
Build ==
    /\ BuildIsDue
    /\ \E r \in run_cmd,
          n \in 0..Len(RawCandidates(build_dir, args.target, args.config, isWindows)) :
        /\ r.code # 0 => n = 0
        /\ fs' = fs \cup (IF n = 0 THEN {}
                          ELSE {RawCandidates(build_dir, args.target, args.config, isWindows)[n]})
        /\ calls' = Append(calls, Call("build", BuildCmd, r.ran, "", r.code))
        /\ out' = out \o r.out
        /\ IF ExitsOn(r.code)
           THEN exitCode' = r.code /\ pc' = "exited"
           ELSE IF args.action = "build"
           THEN exitCode' = 0 /\ pc' = "exited"
           ELSE exitCode' = exitCode /\ pc' = "resolve"
    /\ UNCHANGED <<args, isWindows, script_dir, cmakeOnPath, heap, baseRef, envRef,
                   extra_cmake_args, source_dir, build_dir, exe, candidateList>>

\* whether main calls find_executable next
ResolveIsDue == IF pc = "dispatch" THEN args.action = "run" ELSE pc = "resolve"

\* exe = find_executable(build_dir, args.target, args.config)
Resolve ==
    /\ ResolveIsDue
    /\ exe' = find_executable(build_dir, args.target, args.config, fs, isWindows)
    /\ candidateList' = exe_candidates(build_dir, args.target, args.config, isWindows)
    /\ pc' = "launch"
    /\ UNCHANGED <<args, isWindows, script_dir, fs, cmakeOnPath, heap, baseRef, envRef,
                   extra_cmake_args, source_dir, build_dir, calls, out, exitCode>>

\* code = run_executable(exe, run_args, env); sys.exit(code)
Launch ==
    /\ pc = "launch"
    /\ \E r \in Popen(fs, exe) :
        LET warn == IF ~Exists(fs, exe) THEN <<"warn:executable_not_found">> ELSE <<>>
            cmd == <<Str(exe, isWindows)>> \o args.run_args
        IN  CASE r.raised = "" ->
                   /\ calls' = Append(calls, Call("run", cmd, TRUE, "", r.code))
                   /\ out' = out \o warn \o <<"run">>
                   /\ exitCode' = r.code
              [] r.raised = "FileNotFoundError" ->
                   /\ calls' = Append(calls, Call("run", cmd, FALSE, "", NotFoundCode))
                   /\ out' = out \o warn \o <<"run", "error:failed_to_start">>
                   /\ exitCode' = NotFoundCode
              [] OTHER ->
                   /\ calls' = Append(calls, Call("run", cmd, FALSE, r.raised, 1))
                   /\ out' = out \o warn \o <<"run", "Traceback:" \o r.raised>>
                   /\ exitCode' = 1
    /\ pc' = "exited"
    /\ UNCHANGED <<args, isWindows, script_dir, fs, cmakeOnPath, heap, baseRef, envRef,
                   extra_cmake_args, source_dir, build_dir, exe, candidateList>>

-----------------------------------------------------------------------------
(* Initial states *)

\* the script lives in <project>/scripts
ProjectDir == <<"proj">>
ScriptDir == Join(ProjectDir, "scripts")
BuildDir == Join(ProjectDir, DEFAULT_BUILD_DIR)

\* the defaults of parse_args, for an action and a configuration
DefaultArgs(a, c) ==
    [action |-> a, config |-> c, source_dir |-> <<>>,
     build_dir |-> [absolute |-> FALSE, parts |-> <<DEFAULT_BUILD_DIR>>],
     target |-> DEFAULT_TARGET, cuda_path |-> <<>>, cuda_arch |-> DEFAULT_CUDA_ARCH,
     export_compile_commands |-> FALSE, cmake |-> <<>>, run_args |-> <<>>]

\* os.environ when the script starts
AmbientEnvs ==
    { ("HOME" :> "/home/u") @@ ("PATH" :> "/usr/bin"),
      ("HOME" :> "/home/u") @@ ("PATH" :> "/usr/bin") @@ ("CLICOLOR_FORCE" :> "0")
          @@ ("TERM" :> "") }

\* a CUDA toolkit directory: absent, present without nvcc.exe, or complete
CudaTrees(root) == { {}, {root}, {root, Join(Join(root, "bin"), "nvcc.exe")} }

\* the sets of at most n elements of S
AtMost(S, n) == {T \in SUBSET S : Cardinality(T) <= n}

Range(f) == {f[i] : i \in DOMAIN f}

\* the locals of main before main assigns them
LocalsUnset ==
    /\ source_dir = <<>>
    /\ build_dir = <<>>
    /\ exe = <<>>
    /\ candidateList = <<>>
    /\ envRef = None
    /\ extra_cmake_args = <<>>

\* main starts: any action and configuration, on either platform, with or without
\* cmake, a project marker, a configured build directory, a built executable and a
\* CUDA toolkit
Init ==
    /\ pc = "start"
    /\ \E a \in Actions, c \in ConfigChoices : args = DefaultArgs(a, c)
    /\ isWindows \in BOOLEAN
    /\ script_dir = ScriptDir
    /\ cmakeOnPath \in BOOLEAN
    /\ \E markers \in SUBSET {Join(ProjectDir, "CMakeLists.txt")},
          cache \in SUBSET {CacheMarker(BuildDir)},
          built \in AtMost(Range(RawCandidates(BuildDir, args.target, args.config, isWindows)), 1),
          cuda \in CudaTrees(CUDA_DEFAULT_PATH_WIN) :
            fs = markers \cup cache \cup built \cup cuda
    /\ \E ambient \in AmbientEnvs : heap = <<ambient>>
    /\ baseRef = None
    /\ LocalsUnset
    /\ calls = <<>>
    /\ out = <<>>
    /\ exitCode = Running

Next ==
    \/ LocateProject
    \/ CheckCmake
    \/ ComposeEnv
    \/ WireCuda
    \/ Configure
    \/ Build
    \/ Resolve
    \/ Launch

Spec == Init /\ [][Next]_vars

-----------------------------------------------------------------------------
(* find_project_root over directory trees: main at its first step *)

\* the directories of depth at most n, of components "a" and "b"
RECURSIVE Dirs(_)
Dirs(n) ==
    IF n = 0 THEN {<<>>}
    ELSE Dirs(n - 1) \cup {Join(d, c) : d \in {x \in Dirs(n - 1) : Len(x) = n - 1}, c \in {"a", "b"}}

\* the script in any directory of depth at most MaxDepth; CMakeLists.txt in any of the
\* directories above it, in itself and in a directory below it; --source-dir given or
\* not, --build-dir relative or absolute
InitRoot ==
    /\ pc = "start"
    /\ \E given \in {<<>>, <<ProjectDir>>},
          bd \in {[absolute |-> FALSE, parts |-> <<DEFAULT_BUILD_DIR>>],
                  [absolute |-> TRUE, parts |-> <<"out", DEFAULT_BUILD_DIR>>]} :
          args = [DefaultArgs("configure", "Debug") EXCEPT
                    !.source_dir = given, !.build_dir = bd]
    /\ isWindows = FALSE
    /\ script_dir \in Dirs(MaxDepth)
    /\ cmakeOnPath = TRUE
    /\ \E holders \in SUBSET (Range(Ancestors(script_dir)) \cup {Join(script_dir, "sub")}) :
          fs = {Join(d, "CMakeLists.txt") : d \in holders}
    /\ \E ambient \in AmbientEnvs : heap = <<ambient>>
    /\ baseRef = None
    /\ LocalsUnset
    /\ calls = <<>>
    /\ out = <<>>
    /\ exitCode = Running

SpecRoot == InitRoot /\ [][LocateProject]_vars

-----------------------------------------------------------------------------
(* Environment composition over base environments: main at the call of           *)
(* prepare_utf8_color_env, with the base argument any small dict or None          *)

\* the dicts of at most MaxBaseEntries entries a caller may pass as base
BaseEnvs == UNION {[S -> {"", "0"}] : S \in AtMost(EnvKeys, MaxBaseEntries)}

CustomCudaPath == <<"D:", "cuda">>

InitEnv ==
    /\ pc = "env"
    /\ \E cp \in {<<>>, CustomCudaPath}, ecc \in BOOLEAN :
          args = [DefaultArgs("configure", "Debug") EXCEPT
                    !.cuda_path = cp, !.export_compile_commands = ecc]
    /\ isWindows \in BOOLEAN
    /\ script_dir = ScriptDir
    /\ cmakeOnPath = TRUE
    /\ \E cuda \in CudaTrees(IF Len(args.cuda_path) # 0 THEN args.cuda_path
                             ELSE CUDA_DEFAULT_PATH_WIN) :
          fs = {Join(ProjectDir, "CMakeLists.txt")} \cup cuda
    /\ \E ambient \in AmbientEnvs :
          \/ heap = <<ambient>> /\ baseRef = None
          \/ \E base \in BaseEnvs : heap = <<ambient, base>> /\ baseRef = 2
    /\ source_dir = ProjectDir
    /\ build_dir = BuildDir
    /\ exe = <<>>
    /\ candidateList = <<>>
    /\ envRef = None
    /\ extra_cmake_args = <<>>
    /\ calls = <<>>
    /\ out = <<>>
    /\ exitCode = Running

NextEnv == ComposeEnv \/ WireCuda

SpecEnv == InitEnv /\ [][NextEnv]_vars

-----------------------------------------------------------------------------
(* Executable resolution over build trees: main at the dispatch of `run`, with any *)
(* set of the candidate files on disk                                              *)

InitExe ==
    /\ pc = "dispatch"
    /\ \E c \in ConfigChoices, t \in {DEFAULT_TARGET, "demo"} :
          args = [DefaultArgs("run", c) EXCEPT !.target = t]
    /\ isWindows \in BOOLEAN
    /\ script_dir = ScriptDir
    /\ cmakeOnPath = TRUE
    /\ \E built \in SUBSET Range(RawCandidates(BuildDir, args.target, args.config, isWindows)) :
          fs = {Join(ProjectDir, "CMakeLists.txt")} \cup built
    /\ \E ambient \in AmbientEnvs :
          LET r == prepare_utf8_color_env(<<ambient>>, None, isWindows)
          IN  heap = r.heap /\ envRef = r.ref
    /\ baseRef = None
    /\ source_dir = ProjectDir
    /\ build_dir = BuildDir
    /\ exe = <<>>
    /\ candidateList = <<>>
    /\ extra_cmake_args = <<>>
    /\ calls = <<>>
    /\ out = IF isWindows THEN <<"warn:cuda_path">> ELSE <<>>
    /\ exitCode = Running

NextExe == Resolve \/ Launch

SpecExe == InitExe /\ [][NextExe]_vars

-----------------------------------------------------------------------------
(* The claims *)

StepsOf(cs) == [i \in 1..Len(cs) |-> cs[i].step]

IsPrefix(a, b) == Len(a) <= Len(b) /\ a = SubSeq(b, 1, Len(a))

\* C1: for the action `all` the external steps are invoked at most once each and in
\* the order configure, build, run; once a step's invocation returns a non-zero code
\* no later step is invoked and the script exits with that code.
C1_AllShortCircuits ==
    args.action = "all" =>
        /\ IsPrefix(StepsOf(calls), <<"configure", "build", "run">>)
        /\ \A i \in 1..Len(calls) :
              (calls[i].raised = "" /\ calls[i].code # 0) =>
                  /\ i = Len(calls)
                  /\ pc = "exited"
                  /\ exitCode = calls[i].code

\* all: configure exits 0, build exits 2, the executable is never launched, exit code 2
C1_Witness ==
    /\ args.action = "all"
    /\ pc = "exited"
    /\ StepsOf(calls) = <<"configure", "build">>
    /\ calls[1].code = 0
    /\ calls[2].code = 2
    /\ exitCode = 2

\* C2: for the action `build`, configure is invoked before build if and only if
\* CMakeCache.txt is absent from the build directory when main checks for it; build is
\* invoked exactly once when the marker is present or configure returned 0, and never
\* when configure returned a non-zero code.
C2_BuildConfiguresIffNoCache ==
    /\ [](args.action = "build" =>
            /\ StepsOf(calls) \in {<<>>, <<"configure">>, <<"build">>, <<"configure", "build">>}
            /\ (Len(calls) >= 1 /\ calls[1].step = "configure" /\ calls[1].code # 0)
                  => (Len(calls) = 1 /\ pc = "exited")
            /\ (pc = "exited" /\ Len(calls) >= 1 /\ calls[1].step = "configure"
                  /\ calls[1].code = 0)
                  => StepsOf(calls) = <<"configure", "build">>)
    /\ [][(args.action = "build" /\ pc = "dispatch") =>
            IF build_dir \o <<"CMakeCache.txt">> \in fs
            THEN StepsOf(calls') = <<"build">>
            ELSE StepsOf(calls') = <<"configure">>]_vars

\* build in an unconfigured directory: configure ran, returned 0, then build ran once
C2_Witness ==
    /\ args.action = "build"
    /\ pc = "exited"
    /\ StepsOf(calls) = <<"configure", "build">>
    /\ calls[1].code = 0
    /\ exitCode = 0

\* C3: on the run path the script always attempts to launch the resolved executable,
\* also when it does not exist, and its exit code is the outcome of the launch: the
\* child's exit code when it starts, 127 when it cannot be started.
C3_ExitCodeIsLaunchOutcome ==
    /\ (pc = "exited" /\ cmakeOnPath /\ args.action = "run") => StepsOf(calls) = <<"run">>
    /\ (pc = "exited" /\ Len(calls) > 0 /\ calls[Len(calls)].step = "run") =>
          LET c == calls[Len(calls)]
          IN  /\ c.cmd[1] = Str(exe, isWindows)
              /\ IF c.ran THEN exitCode = c.code ELSE exitCode = 127

\* C4: without cmake on the search path every action exits with 127 before any
\* external process is invoked.
C4_NoCmakeExits127 ==
    ~cmakeOnPath =>
        /\ calls = <<>>
        /\ pc \in {"start", "which", "exited"}
        /\ pc = "exited" => exitCode = 127

\* `all` without cmake: exited with 127, nothing invoked
C4_Witness ==
    /\ ~cmakeOnPath
    /\ args.action = "all"
    /\ pc = "exited"
    /\ exitCode = 127
    /\ calls = <<>>

\* C5: find_executable returns a path that exists whenever a candidate exists, the
\* earliest one in priority order; when none exists it returns the first candidate,
\* build_dir/name.
C5_ResolvesEarliestExisting ==
    pc \in {"launch", "exited"} =>
        LET existing == {i \in 1..Len(candidateList) : candidateList[i] \in fs}
            name == IF isWindows THEN args.target \o ".exe" ELSE args.target
        IN  IF existing # {}
            THEN /\ exe \in fs
                 /\ \E i \in existing : exe = candidateList[i] /\ \A j \in existing : i <= j
            ELSE exe = build_dir \o <<name>>

\* the first candidate is missing, the second and the third exist, the second is chosen
C5_Witness ==
    /\ pc = "launch"
    /\ candidateList[1] \notin fs
    /\ candidateList[2] \in fs
    /\ candidateList[3] \in fs
    /\ exe = candidateList[2]

\* C6: the list of exe_candidates holds no path twice, keeps the priority order
\* build_dir/name, bin, <config>, src/<config>, apps/<config>, Release, Debug with a
\* repeated path at its first position only, and starts with build_dir/name, the name
\* carrying .exe on Windows only.
C6_CandidatesOrderedNoDuplicates ==
    pc \in {"launch", "exited"} =>
        LET name == IF isWindows THEN args.target \o ".exe" ELSE args.target
            b == build_dir
            c == args.config
            order == << b \o <<name>>, b \o <<"bin", name>>, b \o <<c, name>>,
                        b \o <<"src", c, name>>, b \o <<"apps", c, name>>,
                        b \o <<"Release", name>>, b \o <<"Debug", name>> >>
            first(q) == CHOOSE i \in 1..7 : order[i] = q /\ \A j \in 1..(i - 1) : order[j] # q
            n == Len(candidateList)
        IN  /\ \A i, j \in 1..n : i # j => candidateList[i] # candidateList[j]
            /\ {candidateList[i] : i \in 1..n} = {order[i] : i \in 1..7}
            /\ \A i, j \in 1..n : i < j => first(candidateList[i]) < first(candidateList[j])
            /\ candidateList[1] = b \o <<name>>

\* config Release on Windows: build_dir/Release/name.exe is listed once, at position 3
C6_Witness ==
    /\ pc = "launch"
    /\ isWindows
    /\ args.config = "Release"
    /\ Len(candidateList) = 6
    /\ candidateList[3] = build_dir \o <<"Release", args.target \o ".exe">>
    /\ candidateList[6] = build_dir \o <<"Debug", args.target \o ".exe">>

\* C7: find_project_root(d) is the nearest ancestor of d, d included, that holds
\* CMakeLists.txt; when no ancestor holds it, it is parent(d), a warning is printed and
\* the script goes on.
C7_NearestAncestorOrParent ==
    (pc = "which" /\ Len(args.source_dir) = 0) =>
        LET d == script_dir
            holds(a) == a \o <<"CMakeLists.txt">> \in fs
            anc == {SubSeq(d, 1, n) : n \in 0..Len(d)}
            parent == SubSeq(d, 1, IF Len(d) = 0 THEN 0 ELSE Len(d) - 1)
        IN  IF \E a \in anc : holds(a)
            THEN /\ source_dir \in anc
                 /\ holds(source_dir)
                 /\ \A a \in anc : holds(a) => Len(a) <= Len(source_dir)
                 /\ out = <<>>
            ELSE /\ source_dir = parent
                 /\ out = <<"warn:root">>
                 /\ exitCode = Running

\* from a directory of depth 3 with the marker at depth 1, at the root and below the
\* start only: the directory of depth 1 is returned
C7_Witness ==
    /\ pc = "which"
    /\ Len(args.source_dir) = 0
    /\ Len(script_dir) = 3
    /\ fs = { <<"CMakeLists.txt">>, <<script_dir[1], "CMakeLists.txt">>,
              script_dir \o <<"sub", "CMakeLists.txt">> }
    /\ source_dir = <<script_dir[1]>>

\* the variables prepare_utf8_color_env sets: those the claim calls default-if-absent, and the force-color ones
DefaultedKeys == {"PYTHONIOENCODING", "PYTHONUTF8", "LC_ALL", "CLICOLOR", "TERM"}
ForceKeys == {"CLICOLOR_FORCE", "FORCE_COLOR"}
ForceValue(k) == IF k = "CLICOLOR_FORCE" THEN "1" ELSE "3"

\* C8 as claimed: prepare_utf8_color_env never overwrites a value of base for
\* PYTHONIOENCODING, PYTHONUTF8, LC_ALL, CLICOLOR and TERM, but always sets
\* CLICOLOR_FORCE and FORCE_COLOR to their fixed values, also when base holds another
\* value.
C8_ForceColorAlwaysSet ==
    (pc = "cuda" /\ baseRef # None /\ DOMAIN heap[baseRef] # {}) =>
        /\ \A k \in DefaultedKeys \cap DOMAIN heap[baseRef] :
              heap[envRef][k] = heap[baseRef][k]
        /\ \A k \in ForceKeys : heap[envRef][k] = ForceValue(k)

\* C8 as amended: prepare_utf8_color_env never overwrites a value of base for any of
\* the seven variables, CLICOLOR_FORCE and FORCE_COLOR included; these two get their
\* fixed values "1" and "3" only when the map the result starts from has none.
C8_ForceColorOnlyDefaulted ==
    pc = "cuda" =>
        LET from == IF baseRef # None /\ DOMAIN heap[baseRef] # {}
                    THEN heap[baseRef] ELSE heap[Environ]
        IN  /\ baseRef # None =>
                  \A k \in (DefaultedKeys \cup ForceKeys) \cap DOMAIN heap[baseRef] :
                      heap[envRef][k] = heap[baseRef][k]
            /\ \A k \in ForceKeys \ DOMAIN from : heap[envRef][k] = ForceValue(k)

\* base holds CLICOLOR_FORCE = "0" and no FORCE_COLOR: the result keeps "0" and gets "3"
C8_Witness ==
    /\ pc = "cuda"
    /\ baseRef # None
    /\ DOMAIN heap[baseRef] = {"CLICOLOR_FORCE"}
    /\ heap[baseRef]["CLICOLOR_FORCE"] = "0"
    /\ heap[envRef]["CLICOLOR_FORCE"] = "0"
    /\ heap[envRef]["FORCE_COLOR"] = "3"

\* C9: the toolchain step changes the environment only on Windows with the toolchain
\* root and bin/nvcc.exe under it on disk; otherwise the environment after the step
\* equals the one before it, no configure argument is added for the toolchain, and the
\* script goes on to its action.
C9_ToolchainOnlyWhenVerified ==
    [][pc = "cuda" =>
         LET root == IF Len(args.cuda_path) # 0 THEN args.cuda_path
                     ELSE <<"C:", "Program Files", "NVIDIA GPU Computing Toolkit", "CUDA", "v12.3">>
             verified == /\ isWindows
                         /\ root \in fs
                         /\ root \o <<"bin", "nvcc.exe">> \in fs
         IN  /\ pc' = "dispatch"
             /\ exitCode' = Running
             /\ ~verified =>
                   /\ heap'[envRef'] = heap[envRef]
                   /\ extra_cmake_args' = extra_cmake_args \o args.cmake]_vars

\* on Windows with the toolchain root on disk and no nvcc.exe: no toolchain entry in the
\* environment, the warning printed, the script still running
C9_Witness ==
    /\ pc = "dispatch"
    /\ isWindows
    /\ args.cuda_path = CustomCudaPath
    /\ CustomCudaPath \in fs
    /\ CustomCudaPath \o <<"bin", "nvcc.exe">> \notin fs
    /\ "CUDACXX" \notin DOMAIN heap[envRef]
    /\ out = <<"warn:nvcc">>
    /\ exitCode = Running

\* C10: the composed environment starts from a copy of base, for every base, the empty
\* map included: it is another object than base, it holds every entry of base that the
\* steps do not set, and every entry it holds comes from base or is set by a step.
C10_StartsFromCopyOfBase ==
    (pc \in {"cuda", "dispatch"} /\ baseRef # None) =>
          LET base == heap[baseRef]
              env == heap[envRef]
              set == DefaultedKeys \cup ForceKeys \cup {"CUDA_PATH", "CUDACXX", "PATH"}
          IN  /\ envRef # baseRef
              /\ \A k \in DOMAIN base \ set : k \in DOMAIN env /\ env[k] = base[k]
              /\ DOMAIN env \subseteq DOMAIN base \cup set


\* the part of C10 that the code keeps: neither step changes the entries of base or of
\* os.environ
BaseNeverMutated ==
    [][/\ heap'[Environ] = heap[Environ]
       /\ baseRef # None => heap'[baseRef] = heap[baseRef]]_vars

====
